---------------------------- MODULE Spec2Model ----------------------------
(***************************************************************************)
(* Model of the OECD indicator collection pipeline:                        *)
(*   oecd_timeseries_2020_2024.py  (fetch -> build long rows -> collect)    *)
(*   oecd_6_indicators_request.py  (single-year wide collector)            *)
(*   GDP_data_request.py           (single-indicator collector)            *)
(*   app/build_wide_csv.py         (long -> wide pivot)                    *)
(*                                                                         *)
(* Python values are encoded as follows.                                   *)
(*   None / NaN      : the empty sequence <<>>   (None)                     *)
(*   a present value : a one-element sequence <<x>>  (Some(x))              *)
(*   a JSON scalar   : [t, n, s] with t the JSON type, n the number,       *)
(*                     s the text as a sequence of one-character strings   *)
(*   a call outcome  : [raised, exc, ret]                                  *)
(* Numbers in the provider's value field are integer valued in this model; *)
(* text containing "." , "e", "nan" or "inf" is outside the input domain.  *)
(***************************************************************************)
EXTENDS Integers, Sequences, FiniteSets, TLC

VARIABLES
    script,     \* which program is running
    pc,         \* position of that program
    oecd_countries, \* the resolved country list
    ci,         \* index of the country of the outer loop
    ii,         \* index of the indicator of the inner loop
    all_rows,   \* fetch_oecd_timeseries_long: the accumulating list
    results,    \* fetch_oecd_6_indicators / fetch_oecd_indicator_2024: results
    row,        \* fetch_oecd_6_indicators: the row under construction
    log,        \* the requests issued and the delays taken, in order
    resp,       \* the provider's answer under examination (one pair)
    fetched,    \* outcome of fetch_timeseries_rows on resp
    built,      \* outcome of build_long_rows on the fetched rows
    df_long,    \* build_wide_csv: the long table read from INPUT_PATH
    df_wide,    \* build_wide_csv: the file at OUTPUT_PATH
    pycountry,  \* the member names the fuzzy country search finds
    table,      \* the DataFrame a collector function returns
    saved       \* the CSV file a script writes

vars == <<script, pc, oecd_countries, ci, ii, all_rows, results, row, log,
          resp, fetched, built, df_long, df_wide, pycountry, table, saved>>

collectorVars == <<oecd_countries, ci, ii, all_rows, results, row, log>>
pairVars == <<resp, fetched, built>>
pivotVars == <<df_long, df_wide>>
outputVars == <<pycountry, table, saved>>

---------------------------------------------------------------------------
(* Bounds of the model *)

NCountries == 2     \* countries of the member list that a run iterates
NIndicators == 2    \* entries of INDICATORS that a run iterates
MaxRows == 2        \* rows in one provider response
MaxLong == 3        \* records in the long table handed to the pivot
MaxWide == 3        \* rows in the wide table handed to an analysis script

(* Program constants *)

START_YEAR == 2020
END_YEAR == 2024
YEAR == 2024

\* the delay after each request, in hundredths of a second
TIMESERIES_SLEEP == 10
SIX_SLEEP == 12
SINGLE_SLEEP == 15

---------------------------------------------------------------------------
(* Python values *)

Range(f) == {f[x] : x \in DOMAIN f}

None == <<>>
Some(x) == <<x>>

Return(v) == [raised |-> FALSE, exc |-> "", ret |-> <<v>>]
Raise(e) == [raised |-> TRUE, exc |-> e, ret |-> <<>>]
Ret(o) == o.ret[1]

JNull == [t |-> "null", n |-> 0, s |-> <<>>]
JInt(n) == [t |-> "int", n |-> n, s |-> <<>>]
JStr(s) == [t |-> "str", n |-> 0, s |-> s]
JList == [t |-> "list", n |-> 0, s |-> <<>>]

DigitChars == <<"0", "1", "2", "3", "4", "5", "6", "7", "8", "9">>

IsDigit(c) == \E d \in 1..10 : DigitChars[d] = c

DigitVal(c) == (CHOOSE d \in 1..10 : DigitChars[d] = c) - 1

IsSpace(c) == c = " "

RECURSIVE lstrip(_)
lstrip(s) ==
    IF s # <<>> /\ IsSpace(Head(s)) THEN lstrip(Tail(s)) ELSE s

RECURSIVE rstrip(_)
rstrip(s) ==
    IF s # <<>> /\ IsSpace(s[Len(s)]) THEN rstrip(SubSeq(s, 1, Len(s) - 1)) ELSE s

strip(s) == rstrip(lstrip(s))

RECURSIVE DigitsValue(_)
DigitsValue(s) ==
    IF s = <<>> THEN 0
    ELSE 10 * DigitsValue(SubSeq(s, 1, Len(s) - 1)) + DigitVal(s[Len(s)])

(* The decimal integer literal accepted by int(str) and, for integer      *)
(* valued text, by float(str): blanks around, an optional sign, digits.   *)
ParseDecimal(s) ==
    LET t == strip(s)
        signed == t # <<>> /\ Head(t) \in {"+", "-"}
        digits == IF signed THEN Tail(t) ELSE t
    IN  IF digits # <<>> /\ \A k \in 1..Len(digits) : IsDigit(digits[k])
        THEN Return(IF signed /\ Head(t) = "-"
                    THEN 0 - DigitsValue(digits) ELSE DigitsValue(digits))
        ELSE Raise("ValueError")

(* int(x) *)
py_int(x) ==
    CASE x.t = "int" -> Return(x.n)
      [] x.t = "str" -> ParseDecimal(x.s)
      [] OTHER -> Raise("TypeError")

(* float(x) *)
py_float(x) ==
    CASE x.t = "int" -> Return(x.n)
      [] x.t = "str" -> ParseDecimal(x.s)
      [] OTHER -> Raise("TypeError")

RECURSIVE NatDigits(_)
NatDigits(n) ==
    IF n < 10 THEN <<DigitChars[n + 1]>>
    ELSE Append(NatDigits(n \div 10), DigitChars[(n % 10) + 1])

(* str(x) *)
py_str(x) ==
    CASE x.t = "int" -> IF x.n < 0 THEN <<"-">> \o NatDigits(0 - x.n) ELSE NatDigits(x.n)
      [] x.t = "str" -> x.s
      [] x.t = "null" -> <<"N", "o", "n", "e">>
      [] OTHER -> <<"[", "]">>

---------------------------------------------------------------------------
(* Configuration tables *)

\* country_code_convert.py: the member list (four of its names, in its order)
OECD_MEMBERS == <<"Japan", "Korea", "Mexico", "United States">>

MANUAL_ISO3 ==
    ("Korea" :> "KOR") @@ ("United States" :> "USA") @@ ("United Kingdom" :> "GBR")
    @@ ("Turkiye" :> "TUR") @@ ("Turkey" :> "TUR") @@ ("Slovak Republic" :> "SVK") @@ ("Czechia" :> "CZE")

\* pycountry.countries.search_fuzzy(name)[0].alpha_3 for the names it can find
PYCOUNTRY_ALPHA_3 ==
    ("Japan" :> "JPN") @@ ("Mexico" :> "MEX") @@ ("Korea" :> "PRK")
    @@ ("United States" :> "UMI")

\* known: the names the fuzzy search finds in this run's database
name_to_iso3(name, known) ==
    IF name \in DOMAIN MANUAL_ISO3 THEN Return(MANUAL_ISO3[name])
    ELSE IF name \in known THEN Return(PYCOUNTRY_ALPHA_3[name])
    ELSE Raise("ValueError")

\* (claim C16, mutant) a name that cannot be resolved is left out
get_oecd_countries_iso3_SkipUnresolved(known) ==
    LET out[k \in 0..NCountries] ==
            IF k = 0 THEN <<>>
            ELSE LET iso3 == name_to_iso3(OECD_MEMBERS[k], known)
                 IN  IF iso3.raised THEN out[k - 1]
                     ELSE Append(out[k - 1], [name |-> OECD_MEMBERS[k], iso3 |-> Ret(iso3)])
    IN  Return(out[NCountries])

get_oecd_countries_iso3(known) ==
    LET out[k \in 0..NCountries] ==
            IF k = 0 THEN Return(<<>>)
            ELSE
            LET prev == out[k - 1]
                iso3 == name_to_iso3(OECD_MEMBERS[k], known)
            IN  IF prev.raised THEN prev
                ELSE IF iso3.raised THEN Raise(iso3.exc)
                ELSE Return(Append(Ret(prev), [name |-> OECD_MEMBERS[k], iso3 |-> Ret(iso3)]))
    IN  out[NCountries]

\* INDICATORS: column name -> provider code, in dictionary (insertion) order
INDICATORS_TABLE ==
    << [name |-> "gdp_per_capita_usd", code |-> "NY.GDP.PCAP.CD"],
       [name |-> "gdp_growth_pct", code |-> "NY.GDP.MKTP.KD.ZG"],
       [name |-> "unemployment_pct", code |-> "SL.UEM.TOTL.ZS"],
       [name |-> "inflation_cpi_pct", code |-> "FP.CPI.TOTL.ZG"],
       [name |-> "gov_debt_pct_gdp", code |-> "GC.DOD.TOTL.GD.ZS"],
       [name |-> "current_account_pct_gdp", code |-> "BN.CAB.XOKA.GD.ZS"] >>

INDICATORS == SubSeq(INDICATORS_TABLE, 1, NIndicators)

---------------------------------------------------------------------------
(* The provider's answers *)

Dict(date, value) == [isdict |-> TRUE, date |-> date, value |-> value]
NotADict == [isdict |-> FALSE, date |-> JNull, value |-> JNull]

\* the second element of the envelope: t is its JSON type, items what
\* iterating over it yields (the keys of an object are strings, not rows)
Container(t, items) == [t |-> t, items |-> items]
EmptyList == Container("list", <<>>)

\* resp.json(): kind "invalid" is a body that is not JSON
Body(kind, len, second) == [kind |-> kind, len |-> len, second |-> second]

Response(status, data) == [status |-> status, data |-> data]

Envelope(items) == Response("ok", Body("list", 2, Container("list", items)))

---------------------------------------------------------------------------
(* oecd_timeseries_2020_2024.py *)

fetch_timeseries_rows(r) ==
    IF r.status = "conn_error" THEN Raise("ConnectionError")      \* session.get
    ELSE IF r.status = "http_error" THEN Raise("HTTPError")       \* raise_for_status
    ELSE IF r.data.kind = "invalid" THEN Raise("JSONDecodeError") \* resp.json
    ELSE IF r.data.kind # "list" THEN Return(EmptyList)
    ELSE IF r.data.len < 2 THEN Return(EmptyList)
    ELSE IF r.data.second.t = "null" THEN Return(EmptyList)
    ELSE Return(r.data.second)

LongRecord(country_name, iso3, year, indicator_name, indicator_code, value) ==
    [country |-> country_name, iso3 |-> iso3, year |-> year,
     indicator |-> indicator_name, indicator_code |-> indicator_code,
     value |-> value, error |-> None]

\* (claim C6, mutant) the bounds of the range taken as exclusive
OutOfRange_Exclusive(year, start_year, end_year) == year <= start_year \/ year >= end_year

OutOfRange(year, start_year, end_year) == year < start_year \/ year > end_year

build_long_rows(country_name, iso3, indicator_name, indicator_code, rows, start_year, end_year) ==
    IF rows.t \notin {"list", "dict"} THEN Raise("TypeError")   \* for row in rows
    ELSE
    LET n == Len(rows.items)
        after[k \in 0..n] ==       \* the call after k iterations of the loop
            IF k = 0 THEN Return(<<>>)
            ELSE
            LET prev == after[k - 1]
                r == rows.items[k]
            IN  IF prev.raised THEN prev
                ELSE IF ~r.isdict THEN Raise("AttributeError")  \* row.get
                ELSE IF r.date.t = "null" THEN prev             \* continue
                ELSE
                LET year == py_int(r.date)
                IN  IF year.raised
                    THEN (IF year.exc = "ValueError" THEN prev ELSE Raise(year.exc))
                    ELSE IF OutOfRange(Ret(year), start_year, end_year) THEN prev
                    ELSE
                    LET value == IF r.value.t = "null" THEN Return(None)
                                 ELSE LET f == py_float(r.value)
                                      IN  IF f.raised THEN f ELSE Return(Some(Ret(f)))
                    IN  IF value.raised THEN Raise(value.exc)
                        ELSE Return(Append(Ret(prev),
                                LongRecord(country_name, iso3, Some(Ret(year)),
                                           indicator_name, indicator_code, Ret(value))))
    IN  after[n]


\* (claim C2, mutant) the failure record without its error text
DegradedRecord_NoError(country_name, iso3, indicator_name, indicator_code, e) ==
    [country |-> country_name, iso3 |-> iso3, year |-> None,
     indicator |-> indicator_name, indicator_code |-> indicator_code,
     value |-> None, error |-> None]

\* (claim C20, mutant) the failure record dated with the first year
DegradedRecord_FirstYear(country_name, iso3, indicator_name, indicator_code, e) ==
    [country |-> country_name, iso3 |-> iso3, year |-> Some(START_YEAR),
     indicator |-> indicator_name, indicator_code |-> indicator_code,
     value |-> None, error |-> Some(e)]

DegradedRecord(country_name, iso3, indicator_name, indicator_code, e) ==
    [country |-> country_name, iso3 |-> iso3, year |-> None,
     indicator |-> indicator_name, indicator_code |-> indicator_code,
     value |-> None, error |-> Some(e)]

\* (claim C1, mutant) the except branch starts the list over
collect_pair_Restart(rows_so_far, c, ind, r, start_year, end_year) ==
    LET f == fetch_timeseries_rows(r)
        b == IF f.raised THEN f
             ELSE build_long_rows(c.name, c.iso3, ind.name, ind.code, Ret(f),
                                  start_year, end_year)
    IN  IF b.raised
        THEN <<DegradedRecord(c.name, c.iso3, ind.name, ind.code, b.exc)>>
        ELSE rows_so_far \o Ret(b)

\* the try/except of one (country, indicator) pair; r is the provider's answer
collect_pair(rows_so_far, c, ind, r, start_year, end_year) ==
    LET f == fetch_timeseries_rows(r)
        b == IF f.raised THEN f
             ELSE build_long_rows(c.name, c.iso3, ind.name, ind.code, Ret(f),
                                  start_year, end_year)
    IN  IF b.raised
        THEN Append(rows_so_far, DegradedRecord(c.name, c.iso3, ind.name, ind.code, b.exc))
        ELSE rows_so_far \o Ret(b)

---------------------------------------------------------------------------
(* The log of a run: every request issued and every delay taken *)

NoResponse == Response("none", Body("none", 0, Container("null", <<>>)))

GetEvent(iso3, code, r) == [op |-> "get", iso3 |-> iso3, code |-> code, answer |-> r, sec |-> 0]
SleepEvent(sec) == [op |-> "sleep", iso3 |-> "", code |-> "", answer |-> NoResponse, sec |-> sec]

\* what happens to the loop indices when the inner loop body ends
LastPair == ci = Len(oecd_countries) /\ ii = Len(INDICATORS)

\* (claim C3, mutant) the loops nested the other way round
LoopAdvance_IndicatorOuter ==
    IF ci = Len(oecd_countries) THEN [ci |-> 1, ii |-> ii + 1] ELSE [ci |-> ci + 1, ii |-> ii]

\* for c in oecd_countries: for indicator_name in INDICATORS
LoopAdvance ==
    IF ii = Len(INDICATORS) THEN [ci |-> ci + 1, ii |-> 1] ELSE [ci |-> ci, ii |-> ii + 1]

---------------------------------------------------------------------------
(* Answers the provider gives during a collector run *)

Y2023 == JStr(<<"2", "0", "2", "3">>)
Y2024 == JStr(<<"2", "0", "2", "4">>)
NotANumber == JStr(<<"n", "/", "a">>)

HttpError == Response("http_error", Body("none", 0, Container("null", <<>>)))
ConnError == Response("conn_error", Body("none", 0, Container("null", <<>>)))
NullEnvelope == Response("ok", Body("list", 2, Container("null", <<>>)))
GoodRows == Envelope(<<Dict(Y2024, JInt(100)), Dict(Y2023, JNull)>>)
BadValueRows == Envelope(<<Dict(Y2023, JNull), Dict(Y2024, NotANumber)>>)
NullValueRow == Envelope(<<Dict(Y2024, JNull)>>)

NotRows == Envelope(<<NotADict>>)

TimeseriesAnswers == {HttpError, NullEnvelope, GoodRows}
SixAnswers == {HttpError, NullEnvelope, GoodRows}
SingleAnswers == {HttpError, ConnError, NullEnvelope, GoodRows, NullValueRow, NotRows}

---------------------------------------------------------------------------
(* Start of a collector script: the country directory is resolved first *)

\* the names of the run's member list that need the fuzzy search
FuzzyNames == {OECD_MEMBERS[k] : k \in 1..NCountries} \ DOMAIN MANUAL_ISO3

Resolve ==
    /\ pc = "start"
    /\ LET r == get_oecd_countries_iso3(pycountry)
       IN  IF r.raised
           THEN /\ pc' = "crashed"
                /\ oecd_countries' = <<>>
           ELSE /\ pc' = "request"
                /\ oecd_countries' = Ret(r)
    /\ UNCHANGED <<script, ci, ii, all_rows, results, row, log>>
    /\ UNCHANGED pairVars
    /\ UNCHANGED pivotVars
    /\ UNCHANGED outputVars

---------------------------------------------------------------------------
(* fetch_oecd_timeseries_long: one pass of the inner loop body, then the   *)
(* delay that ends it                                                      *)

RequestTimeseries ==
    /\ script = "timeseries"
    /\ pc = "request"
    /\ \E r \in TimeseriesAnswers :
          /\ all_rows' = collect_pair(all_rows, oecd_countries[ci], INDICATORS[ii], r,
                                      START_YEAR, END_YEAR)
          /\ log' = Append(log, GetEvent(oecd_countries[ci].iso3, INDICATORS[ii].code, r))
    /\ pc' = "sleep"
    /\ UNCHANGED <<script, oecd_countries, ci, ii, results, row>>
    /\ UNCHANGED pairVars
    /\ UNCHANGED pivotVars
    /\ UNCHANGED outputVars

\* (claim C4, mutant) the delay inside the try block: a failure skips it
SleepTimeseries_InTry ==
    /\ script = "timeseries"
    /\ pc = "sleep"
    /\ log' = IF fetch_timeseries_rows(log[Len(log)].answer).raised THEN log
              ELSE Append(log, SleepEvent(TIMESERIES_SLEEP))
    /\ ci' = LoopAdvance.ci
    /\ ii' = LoopAdvance.ii
    /\ pc' = IF LastPair THEN "collected" ELSE "request"
    /\ UNCHANGED <<script, oecd_countries, all_rows, results, row>>
    /\ UNCHANGED pairVars
    /\ UNCHANGED pivotVars
    /\ UNCHANGED outputVars

SleepTimeseries ==
    /\ script = "timeseries"
    /\ pc = "sleep"
    /\ log' = Append(log, SleepEvent(TIMESERIES_SLEEP))
    /\ ci' = LoopAdvance.ci
    /\ ii' = LoopAdvance.ii
    /\ pc' = IF LastPair THEN "collected" ELSE "request"
    /\ UNCHANGED <<script, oecd_countries, all_rows, results, row>>
    /\ UNCHANGED pairVars
    /\ UNCHANGED pivotVars
    /\ UNCHANGED outputVars

---------------------------------------------------------------------------
(* oecd_6_indicators_request.py *)

\* the loop over the rows of a single-year answer, shared by the two
\* single-year fetchers: the first row of the year decides
year_value(items, year) ==
    LET n == Len(items)
        scan[k \in 1..(n + 1)] ==
            IF k = n + 1 THEN Return(None)
            ELSE
            LET r == items[k]
            IN  IF ~r.isdict THEN Raise("AttributeError")           \* row.get
                ELSE IF py_str(r.date) = py_str(JInt(year))
                THEN (IF r.value.t = "null" THEN Return(None)
                      ELSE LET f == py_float(r.value)
                           IN  IF f.raised THEN f ELSE Return(Some(Ret(f))))
                ELSE scan[k + 1]
    IN  scan[1]

fetch_value_for_country_year(r, year) ==
    IF r.status = "conn_error" THEN Raise("ConnectionError")
    ELSE IF r.status = "http_error" THEN Raise("HTTPError")
    ELSE IF r.data.kind = "invalid" THEN Raise("JSONDecodeError")
    ELSE IF r.data.kind # "list" THEN Return(None)
    ELSE IF r.data.len < 2 THEN Return(None)
    ELSE IF r.data.second.t = "null" THEN Return(None)
    ELSE IF r.data.second.t = "num" THEN Raise("TypeError")       \* len(data[1])
    ELSE IF Len(r.data.second.items) = 0 THEN Return(None)
    ELSE year_value(r.data.second.items, year)

NewRow(c, year) == [country |-> c.name, iso3 |-> c.iso3, year |-> year, cells |-> <<>>]

\* the try/except of one indicator column of the row under construction
fill_column(rw, col_name, v) ==
    [rw EXCEPT !.cells = Append(@,
        IF v.raised
        THEN [col |-> col_name, value |-> None, error |-> Some(v.exc)]
        ELSE [col |-> col_name, value |-> Ret(v), error |-> None])]

RequestSix ==
    /\ script = "six"
    /\ pc = "request"
    /\ \E r \in SixAnswers :
          LET c == oecd_countries[ci]
              started == IF ii = 1 THEN NewRow(c, YEAR) ELSE row
          IN  /\ row' = fill_column(started, INDICATORS[ii].name,
                                    fetch_value_for_country_year(r, YEAR))
              /\ log' = Append(log, GetEvent(c.iso3, INDICATORS[ii].code, r))
    /\ pc' = "sleep"
    /\ UNCHANGED <<script, oecd_countries, ci, ii, all_rows, results>>
    /\ UNCHANGED pairVars
    /\ UNCHANGED pivotVars
    /\ UNCHANGED outputVars

SleepSix ==
    /\ script = "six"
    /\ pc = "sleep"
    /\ log' = Append(log, SleepEvent(SIX_SLEEP))
    /\ results' = IF ii = Len(INDICATORS) THEN Append(results, row) ELSE results
    /\ ci' = LoopAdvance.ci
    /\ ii' = LoopAdvance.ii
    /\ pc' = IF LastPair THEN "collected" ELSE "request"
    /\ UNCHANGED <<script, oecd_countries, all_rows, row>>
    /\ UNCHANGED pairVars
    /\ UNCHANGED pivotVars
    /\ UNCHANGED outputVars

---------------------------------------------------------------------------
(* GDP_data_request.py *)

INDICATOR == "NY.GDP.PCAP.CD"

fetch_indicator_for_country_year(r, year) ==
    IF r.status = "conn_error" THEN Raise("ConnectionError")
    ELSE IF r.status = "http_error" THEN Raise("HTTPError")
    ELSE IF r.data.kind = "invalid" THEN Raise("JSONDecodeError")
    ELSE IF r.data.kind # "list" \/ r.data.len < 2 THEN Return(None)
    ELSE IF r.data.second.t = "null" THEN Return(None)            \* not data[1]
    ELSE IF r.data.second.t = "num" THEN Raise("TypeError")       \* for row in rows
    ELSE IF Len(r.data.second.items) = 0 THEN Return(None)
    ELSE year_value(r.data.second.items, year)

\* (claim C19, mutant) a failed fetch reported as a missing value
StatusOf_ErrorAsMissing(v) ==
    IF ~v.raised /\ Ret(v) # None THEN "ok" ELSE "missing_value"

\* which except clause takes the exception: HTTPError, then the other
\* RequestException classes, then everything else
StatusOf(v) ==
    IF ~v.raised THEN (IF Ret(v) # None THEN "ok" ELSE "missing_value")
    ELSE IF v.exc = "HTTPError" THEN "http_error"
    ELSE IF v.exc \in {"ConnectionError", "JSONDecodeError"} THEN "request_error"
    ELSE "unexpected_error"

result_row(c, v) ==
    [country |-> c.name, iso3 |-> c.iso3, year |-> YEAR,
     value |-> IF v.raised THEN None ELSE Ret(v),
     status |-> StatusOf(v),
     detail |-> IF v.raised THEN Some(v.exc) ELSE None]

RequestSingle ==
    /\ script = "single"
    /\ pc = "request"
    /\ \E r \in SingleAnswers :
          LET c == oecd_countries[ci]
          IN  /\ results' = Append(results,
                                   result_row(c, fetch_indicator_for_country_year(r, YEAR)))
              /\ log' = Append(log, GetEvent(c.iso3, INDICATOR, r))
    /\ pc' = "sleep"
    /\ UNCHANGED <<script, oecd_countries, ci, ii, all_rows, row>>
    /\ UNCHANGED pairVars
    /\ UNCHANGED pivotVars
    /\ UNCHANGED outputVars

\* (claim C17, mutant) the rows collected so far written after each country
SleepSingle_Checkpoint ==
    /\ script = "single"
    /\ pc = "sleep"
    /\ log' = Append(log, SleepEvent(SINGLE_SLEEP))
    /\ ci' = ci + 1
    /\ pc' = IF ci = Len(oecd_countries) THEN "collected" ELSE "request"
    /\ saved' = Some(results)
    /\ UNCHANGED <<script, oecd_countries, ii, all_rows, results, row>>
    /\ UNCHANGED pairVars
    /\ UNCHANGED pivotVars
    /\ UNCHANGED <<pycountry, table>>

SleepSingle ==
    /\ script = "single"
    /\ pc = "sleep"
    /\ log' = Append(log, SleepEvent(SINGLE_SLEEP))
    /\ ci' = ci + 1
    /\ pc' = IF ci = Len(oecd_countries) THEN "collected" ELSE "request"
    /\ UNCHANGED <<script, oecd_countries, ii, all_rows, results, row>>
    /\ UNCHANGED pairVars
    /\ UNCHANGED pivotVars
    /\ UNCHANGED outputVars

---------------------------------------------------------------------------
NoOutcome == Raise("not run")

---------------------------------------------------------------------------
(* One (country, indicator) pair of fetch_oecd_timeseries_long, taken apart *)
(* into its calls, on every answer of a bounded domain                      *)

SeqsUpTo(S, n) == UNION {[1..k -> S] : k \in 0..n}

Y2019 == JStr(<<"2", "0", "1", "9">>)
Y2020 == JStr(<<"2", "0", "2", "0">>)
Y2025 == JStr(<<"2", "0", "2", "5">>)
Y2021Padded == JStr(<<" ", "2", "0", "2", "1", " ">>)
Y2020Q1 == JStr(<<"2", "0", "2", "0", "Q", "1">>)

PairDates == {JNull, Y2019, Y2020, Y2024, Y2025, Y2021Padded, Y2020Q1, JInt(2022), JList}
PairValues == {JNull, JStr(<<"7">>), NotANumber, JList}

PairRows ==
    {Dict(d, JInt(100)) : d \in PairDates} \cup {Dict(Y2020, v) : v \in PairValues}
    \cup {NotADict}

PairSeconds ==
    {Container("list", items) : items \in SeqsUpTo(PairRows, MaxRows)}
    \cup {Container("null", <<>>), Container("num", <<>>),
          Container("dict", <<>>), Container("dict", <<NotADict>>)}

PairResponses ==
    {HttpError, ConnError,
     Response("ok", Body("invalid", 0, Container("null", <<>>))),
     Response("ok", Body("dict", 0, Container("null", <<>>))),
     Response("ok", Body("list", 0, Container("null", <<>>))),
     Response("ok", Body("list", 1, Container("null", <<>>)))}
    \cup {Response("ok", Body("list", len, second)) : len \in {2, 3}, second \in PairSeconds}

PairCountry == oecd_countries[ci]
PairIndicator == INDICATORS[ii]

InitPair ==
    /\ script = "pair"
    /\ pc = "fetch"
    /\ oecd_countries = Ret(get_oecd_countries_iso3(FuzzyNames))
    /\ ci = NCountries
    /\ ii = NIndicators
    /\ all_rows = <<>>
    /\ results = <<>>
    /\ row = <<>>
    /\ log = <<>>
    /\ resp \in PairResponses
    /\ fetched = NoOutcome
    /\ built = NoOutcome
    /\ df_long = <<>>
    /\ df_wide = None
    /\ pycountry = FuzzyNames
    /\ table = None
    /\ saved = None

FetchPair ==
    /\ pc = "fetch"
    /\ fetched' = fetch_timeseries_rows(resp)
    /\ pc' = IF fetched'.raised THEN "except" ELSE "build"
    /\ UNCHANGED <<script, resp, built>>
    /\ UNCHANGED collectorVars
    /\ UNCHANGED pivotVars
    /\ UNCHANGED outputVars

BuildPair ==
    /\ pc = "build"
    /\ built' = build_long_rows(PairCountry.name, PairCountry.iso3, PairIndicator.name,
                                PairIndicator.code, Ret(fetched), START_YEAR, END_YEAR)
    /\ pc' = IF built'.raised THEN "except" ELSE "extend"
    /\ UNCHANGED <<script, resp, fetched>>
    /\ UNCHANGED collectorVars
    /\ UNCHANGED pivotVars
    /\ UNCHANGED outputVars

CollectPair ==
    /\ pc \in {"except", "extend"}
    /\ all_rows' = collect_pair(all_rows, PairCountry, PairIndicator, resp,
                                START_YEAR, END_YEAR)
    /\ pc' = "paired"
    /\ UNCHANGED <<script, oecd_countries, ci, ii, results, row, log>>
    /\ UNCHANGED pairVars
    /\ UNCHANGED pivotVars
    /\ UNCHANGED outputVars

NextPair ==
    \/ FetchPair
    \/ BuildPair
    \/ CollectPair

SpecPair == InitPair /\ [][NextPair]_vars

---------------------------------------------------------------------------
(* app/build_wide_csv.py *)

ordered_columns ==
    <<"gdp_per_capita_usd", "gdp_growth_pct", "unemployment_pct",
      "inflation_cpi_pct", "gov_debt_pct_gdp", "current_account_pct_gdp">>

\* the order of the strings that occur as country names, codes and
\* indicator names
StringOrder ==
    <<"JPN", "Japan", "KOR", "Korea", "MEX", "Mexico", "USA", "United States",
      "current_account_pct_gdp", "gdp_growth_pct", "gdp_per_capita_usd",
      "gov_debt_pct_gdp", "inflation_cpi_pct", "unemployment_pct">>
StrRank(x) == CHOOSE k \in 1..Len(StringOrder) : StringOrder[k] = x

\* a missing year sorts before the years
YearLess(a, b) == IF a = None THEN b # None ELSE b # None /\ a[1] < b[1]

LongKey(r) == [country |-> r.country, iso3 |-> r.iso3, year |-> r.year]

KeyLess(a, b) ==
    \/ StrRank(a.country) < StrRank(b.country)
    \/ a.country = b.country /\ StrRank(a.iso3) < StrRank(b.iso3)
    \/ a.country = b.country /\ a.iso3 = b.iso3 /\ YearLess(a.year, b.year)

RECURSIVE SortKeys(_)
SortKeys(keys) ==
    IF keys = {} THEN <<>>
    ELSE LET least == CHOOSE k \in keys : \A o \in keys \ {k} : KeyLess(k, o)
         IN  <<least>> \o SortKeys(keys \ {least})

\* (claim C10, mutant) duplicates that agree on the value are let through
HasDuplicateEntries_SameValueOk(df) ==
    \E i \in 1..Len(df) : \E j \in (i + 1)..Len(df) :
        /\ LongKey(df[i]) = LongKey(df[j]) /\ df[i].indicator = df[j].indicator
        /\ df[i].value # df[j].value

HasDuplicateEntries(df) ==
    \E i \in 1..Len(df) : \E j \in (i + 1)..Len(df) :
        LongKey(df[i]) = LongKey(df[j]) /\ df[i].indicator = df[j].indicator

\* (claim C9, mutant) rows without a year dropped from the row labels
IndexKeys_DropNa(df) == {LongKey(df[i]) : i \in {j \in 1..Len(df) : df[j].year # None}}

\* the row labels of the pivoted table: a missing year is a label of its own
IndexKeys(df) == {LongKey(df[i]) : i \in 1..Len(df)}

\* DataFrame.pivot(index=[country, iso3, year], columns=indicator, values=value)
pivot(df) ==
    IF HasDuplicateEntries(df) THEN Raise("ValueError")
    ELSE Return([index |-> SortKeys(IndexKeys(df)),
                 columns |-> {df[i].indicator : i \in 1..Len(df)},
                 at |-> [k \in IndexKeys(df),
                         c \in {df[i].indicator : i \in 1..Len(df)} |->
                           IF \E i \in 1..Len(df) : LongKey(df[i]) = k /\ df[i].indicator = c
                           THEN df[CHOOSE i \in 1..Len(df) :
                                      LongKey(df[i]) = k /\ df[i].indicator = c].value
                           ELSE None]])

\* reset_index, then the columns of ordered_columns that exist, in that order
wide_rows(p) ==
    LET kept == SelectSeq(ordered_columns, LAMBDA c : c \in p.columns)
    IN  [k \in 1..Len(p.index) |->
            [country |-> p.index[k].country, iso3 |-> p.index[k].iso3,
             year |-> p.index[k].year,
             cells |-> [j \in 1..Len(kept) |->
                          [col |-> kept[j], value |-> p.at[p.index[k], kept[j]]]]]]

PivotKeys == {[country |-> "Japan", iso3 |-> "JPN"], [country |-> "Korea", iso3 |-> "KOR"]}
PivotYears == {Some(2020), None}
PivotIndicators == {"gdp_per_capita_usd", "gdp_growth_pct"}
PivotValues == {None, Some(1), Some(2)}

PivotRecords ==
    {[country |-> k.country, iso3 |-> k.iso3, year |-> y, indicator |-> i, value |-> v] :
        k \in PivotKeys, y \in PivotYears, i \in PivotIndicators, v \in PivotValues}

InitPivot ==
    /\ script = "build_wide_csv"
    /\ pc = "pivot"
    /\ oecd_countries = <<>>
    /\ ci = 1
    /\ ii = 1
    /\ all_rows = <<>>
    /\ results = <<>>
    /\ row = <<>>
    /\ log = <<>>
    /\ resp = NoResponse
    /\ fetched = NoOutcome
    /\ built = NoOutcome
    /\ df_long \in SeqsUpTo(PivotRecords, MaxLong)
    /\ df_wide = None
    /\ pycountry = {}
    /\ table = None
    /\ saved = None

BuildWide ==
    /\ script = "build_wide_csv"
    /\ pc = "pivot"
    /\ LET p == pivot(df_long)
       IN  IF p.raised
           THEN /\ pc' = "crashed"
                /\ df_wide' = df_wide
           ELSE /\ pc' = "written"
                /\ df_wide' = Some(wide_rows(Ret(p)))
    /\ UNCHANGED <<script, df_long>>
    /\ UNCHANGED collectorVars
    /\ UNCHANGED pairVars
    /\ UNCHANGED outputVars

NextPivot == BuildWide

SpecPivot == InitPivot /\ [][NextPivot]_vars

\* a stable sort: each row goes behind the rows that are not greater;
\* less is the set of the pairs <<a, b>> of rows with a before b
InsertSorted(sorted, x, less) ==
    LET p == Cardinality({k \in 1..Len(sorted) : <<x, sorted[k]>> \notin less})
    IN  SubSeq(sorted, 1, p) \o <<x>> \o SubSeq(sorted, p + 1, Len(sorted))

StableSort(rows, less) ==
    LET upto[k \in 0..Len(rows)] ==
            IF k = 0 THEN <<>> ELSE InsertSorted(upto[k - 1], rows[k], less)
    IN  upto[Len(rows)]

---------------------------------------------------------------------------
(* src/analysis_yearly_changes.py *)

METRICS ==
    <<"gdp_per_capita_usd", "gdp_growth_pct", "unemployment_pct",
      "inflation_cpi_pct", "gov_debt_pct_gdp", "current_account_pct_gdp">>

\* the columns of a table whose rows are r: every row has the same ones
columns_of(rows) == IF rows = <<>> THEN <<>> ELSE [j \in 1..Len(rows[1].cells) |-> rows[1].cells[j].col]

\* row[col] for a column the row has
cell(w, col) == w.cells[CHOOSE j \in 1..Len(w.cells) : w.cells[j].col = col].value

\* df[df["year"] == year]
year_subset(rows, year) == SelectSeq(rows, LAMBDA w : w.year = Some(year))

\* (claim C11, mutant) how="left": a start row without an end row is kept,
\* with the end columns missing
merge_Left(left, right) ==
    LET matches(l) == SelectSeq(right, LAMBDA r : r.country = l.country /\ r.iso3 = l.iso3)
        joined[k \in 0..Len(left)] ==
            IF k = 0 THEN <<>>
            ELSE joined[k - 1] \o
                 (IF matches(left[k]) = <<>>
                  THEN <<[left |-> left[k],
                          right |-> [left[k] EXCEPT !.cells =
                                       [j \in 1..Len(left[k].cells) |->
                                          [col |-> left[k].cells[j].col, value |-> None]]]]>>
                  ELSE [m \in 1..Len(matches(left[k])) |->
                          [left |-> left[k], right |-> matches(left[k])[m]]])
    IN  joined[Len(left)]

\* pd.merge(df_start, df_end, on=["country", "iso3"], how="inner"): the
\* pairs of a left row and a right row of the same country and iso3, in the
\* order of the left rows
merge(left, right) ==
    LET matches(l) == SelectSeq(right, LAMBDA r : r.country = l.country /\ r.iso3 = l.iso3)
        joined[k \in 0..Len(left)] ==
            IF k = 0 THEN <<>>
            ELSE joined[k - 1] \o
                 [m \in 1..Len(matches(left[k])) |->
                    [left |-> left[k], right |-> matches(left[k])[m]]]
    IN  joined[Len(left)]

\* (claim C12, mutant) a missing value counted as zero
minus_FillZero(a, b) ==
    Some((IF a = None THEN 0 ELSE a[1]) - (IF b = None THEN 0 ELSE b[1]))

\* df_merged[end_col] - df_merged[start_col]: missing if either is missing
minus(a, b) == IF a = None \/ b = None THEN None ELSE Some(a[1] - b[1])

\* the columns kept for one metric: <m>_<START_YEAR>, <m>_<END_YEAR>, <m>_change
change_cells(pair, m) ==
    << [col |-> [metric |-> m, part |-> "start"], value |-> cell(pair.left, m)],
       [col |-> [metric |-> m, part |-> "end"], value |-> cell(pair.right, m)],
       [col |-> [metric |-> m, part |-> "change"],
        value |-> minus(cell(pair.right, m), cell(pair.left, m))] >>

\* steps 2 to 5 of main: split, merge, compute the changes of the metrics
\* whose columns exist, keep the identity and the metric columns
compute_changes(rows) ==
    LET present == SelectSeq(METRICS, LAMBDA m : m \in Range(columns_of(rows)))
        merged == merge(year_subset(rows, START_YEAR), year_subset(rows, END_YEAR))
        cells_of(pair) ==
            LET acc[j \in 0..Len(present)] ==
                    IF j = 0 THEN <<>> ELSE acc[j - 1] \o change_cells(pair, present[j])
            IN  acc[Len(present)]
    IN  [k \in 1..Len(merged) |->
            [country |-> merged[k].left.country, iso3 |-> merged[k].left.iso3,
             cells |-> cells_of(merged[k])]]

WideYears == {Some(START_YEAR), Some(2021), Some(END_YEAR), None}
WideKeys == {[country |-> k.country, iso3 |-> k.iso3, year |-> y] : k \in PivotKeys, y \in WideYears}

WideCells ==
    {<<[col |-> "gdp_per_capita_usd", value |-> a], [col |-> "gdp_growth_pct", value |-> b]>> :
        a \in {None, Some(1), Some(3)}, b \in {None, Some(2)}}

\* a wide table as the pivot writes it: distinct keys, in key order
WideTableOf(S, f) ==
    LET ks == SortKeys(S)
    IN  [k \in 1..Len(ks) |->
            [country |-> ks[k].country, iso3 |-> ks[k].iso3,
             year |-> ks[k].year, cells |-> f[ks[k]]]]

KeySetsUpTo(keys, n) == {T \in SUBSET keys : Cardinality(T) <= n}

InitChanges ==
    /\ script = "analysis_yearly_changes"
    /\ pc = "load"
    /\ oecd_countries = <<>>
    /\ ci = 1
    /\ ii = 1
    /\ all_rows = <<>>
    /\ results = <<>>
    /\ row = <<>>
    /\ log = <<>>
    /\ resp = NoResponse
    /\ fetched = NoOutcome
    /\ built = NoOutcome
    /\ df_long = <<>>
    /\ \E S \in KeySetsUpTo(WideKeys, MaxWide) : \E f \in [S -> WideCells] :
          df_wide = Some(WideTableOf(S, f))
    /\ pycountry = {}
    /\ table = None
    /\ saved = None

YearlyChanges ==
    /\ script = "analysis_yearly_changes"
    /\ pc = "load"
    /\ table' = Some(compute_changes(df_wide[1]))
    /\ saved' = Some(compute_changes(df_wide[1]))
    /\ pc' = "saved"
    /\ UNCHANGED <<script, pycountry>>
    /\ UNCHANGED collectorVars
    /\ UNCHANGED pairVars
    /\ UNCHANGED pivotVars

NextChanges == YearlyChanges

SpecChanges == InitChanges /\ [][NextChanges]_vars

---------------------------------------------------------------------------
(* src/analysis_yearly_diff_and_pct.py and src/analysis_yoy_pct_plotly.py *)

METRIC == "gdp_per_capita_usd"
COUNTRY_ISO3 == "KOR"

\* df[["country", "iso3", "year", METRIC]].dropna()
metric_rows(rows) ==
    LET whole == SelectSeq(rows, LAMBDA w : w.year # None /\ cell(w, METRIC) # None)
    IN  [k \in 1..Len(whole) |->
            [country |-> whole[k].country, iso3 |-> whole[k].iso3,
             year |-> whole[k].year[1], value |-> cell(whole[k], METRIC)[1]]]

\* df[(df["year"] >= START_YEAR) & (df["year"] <= END_YEAR)]
analysis_range(rows) == SelectSeq(rows, LAMBDA r : r.year >= START_YEAR /\ r.year <= END_YEAR)

\* sort_values(["country", "year"])
CountryYearLess(a, b) ==
    \/ StrRank(a.country) < StrRank(b.country)
    \/ a.country = b.country /\ a.year < b.year

\* sort_values(["iso3", "year"])
Iso3YearLess(a, b) ==
    \/ StrRank(a.iso3) < StrRank(b.iso3)
    \/ a.iso3 = b.iso3 /\ a.year < b.year

\* (claim C13, mutant) the previous row of the table, whatever its iso3
previous_AnyGroup(rows, k) == IF k = 1 THEN None ELSE Some(rows[k - 1].value)

\* groupby("iso3")[METRIC]: the value of the row before row k among the
\* rows of the same iso3, in the order of the table
previous(rows, k) ==
    LET before == {j \in 1..(k - 1) : rows[j].iso3 = rows[k].iso3}
    IN  IF before = {} THEN None
        ELSE Some(rows[CHOOSE j \in before : \A o \in before : o <= j].value)

\* (claim C14, mutant) a first row compared with zero
diff_FromZero(prev, cur) == IF prev = None THEN Some(cur) ELSE Some(cur - prev[1])

\* .diff()
diff(prev, cur) == IF prev = None THEN None ELSE Some(cur - prev[1])

\* floating-point results: a fraction, or an infinity of either sign; a
\* not-a-number result is a missing value
Number(num, den) == Some([t |-> "num", num |-> num, den |-> den])
Infinity(sign) == Some([t |-> "inf", num |-> sign, den |-> 0])
NaN == None

\* (claim C15, mutant) a division by zero that raises
pct_change_Raises(prev, cur) ==
    IF prev = None THEN Return(NaN)
    ELSE IF prev[1] = 0 THEN Raise("ZeroDivisionError")
    ELSE Return(Number(100 * (cur - prev[1]), prev[1]))

\* .pct_change() * 100: (cur / prev - 1) * 100 in floating point, which
\* divides by zero without raising
pct_change(prev, cur) ==
    IF prev = None THEN Return(NaN)
    ELSE IF prev[1] = 0
    THEN (IF cur = 0 THEN Return(NaN)
          ELSE Return(Infinity(IF cur > 0 THEN 1 ELSE 0 - 1)))
    ELSE Return(Number(100 * (cur - prev[1]), prev[1]))

\* the nearest integer to num / den, the even one of two equally near
RoundHalfEven(num, den) ==
    LET n == IF den < 0 THEN 0 - num ELSE num
        d == IF den < 0 THEN 0 - den ELSE den
        q == n \div d
        r == n - q * d
    IN  IF 2 * r < d THEN q
        ELSE IF 2 * r > d THEN q + 1
        ELSE IF q % 2 = 0 THEN q ELSE q + 1

\* .round(2): fractions become hundredths; infinities and missing values stay
round2(x) ==
    IF x = None \/ x[1].t # "num" THEN x
    ELSE Number(RoundHalfEven(100 * x[1].num, x[1].den), 100)

\* steps 1 to 6 of analysis_yearly_diff_and_pct.main
yearly_diff_pct(rows) ==
    LET usable == metric_rows(rows)
        df == StableSort(usable, {p \in Range(usable) \X Range(usable) :
                                      CountryYearLess(p[1], p[2])})
        raised == \E k \in 1..Len(df) : pct_change(previous(df, k), df[k].value).raised
        with == [k \in 1..Len(df) |->
                    [country |-> df[k].country, iso3 |-> df[k].iso3, year |-> df[k].year,
                     value |-> df[k].value,
                     yearly_diff |-> diff(previous(df, k), df[k].value),
                     yearly_pct_change |->
                        round2(Ret(pct_change(previous(df, k), df[k].value)))]]
    IN  IF raised THEN Raise("ZeroDivisionError") ELSE Return(analysis_range(with))

\* analysis_yoy_pct_plotly.main up to the yoy_pct column
yoy_pct(rows) ==
    LET usable == analysis_range(metric_rows(rows))
        df == StableSort(usable, {p \in Range(usable) \X Range(usable) :
                                      Iso3YearLess(p[1], p[2])})
        raised == \E k \in 1..Len(df) : pct_change(previous(df, k), df[k].value).raised
    IN  IF raised THEN Raise("ZeroDivisionError")
        ELSE Return([k \in 1..Len(df) |->
                [country |-> df[k].country, iso3 |-> df[k].iso3, year |-> df[k].year,
                 value |-> df[k].value,
                 yoy_pct |-> Ret(pct_change(previous(df, k), df[k].value))]])

YoYYears == {2019, 2020, 2021}
YoYValues == {None, Some(0), Some(2), Some(4)}
YoYKeys == {[country |-> k.country, iso3 |-> k.iso3, year |-> Some(y)] : k \in PivotKeys, y \in YoYYears}

\* a wide table with the column of METRIC, its rows in any order
YoYTableOf(keys, values) ==
    [k \in 1..Len(keys) |->
        [country |-> keys[k].country, iso3 |-> keys[k].iso3, year |-> keys[k].year,
         cells |-> <<[col |-> METRIC, value |-> values[k]]>>]]

InitYoY ==
    /\ script \in {"analysis_yearly_diff_and_pct", "analysis_yoy_pct_plotly"}
    /\ pc = "load"
    /\ oecd_countries = <<>>
    /\ ci = 1
    /\ ii = 1
    /\ all_rows = <<>>
    /\ results = <<>>
    /\ row = <<>>
    /\ log = <<>>
    /\ resp = NoResponse
    /\ fetched = NoOutcome
    /\ built = NoOutcome
    /\ df_long = <<>>
    /\ \E n \in 0..MaxWide : \E keys \in [1..n -> YoYKeys] : \E values \in [1..n -> YoYValues] :
          /\ \A i, j \in 1..n : i # j => keys[i] # keys[j]
          /\ df_wide = Some(YoYTableOf(keys, values))
    /\ pycountry = {}
    /\ table = None
    /\ saved = None

YearlyDiffPct ==
    /\ script = "analysis_yearly_diff_and_pct"
    /\ pc = "load"
    /\ LET out == yearly_diff_pct(df_wide[1])
       IN  IF out.raised
           THEN /\ pc' = "crashed"
                /\ UNCHANGED <<table, saved>>
           ELSE /\ pc' = "saved"
                /\ table' = Some(Ret(out))
                /\ saved' = Some(Ret(out))
    /\ UNCHANGED <<script, pycountry>>
    /\ UNCHANGED collectorVars
    /\ UNCHANGED pairVars
    /\ UNCHANGED pivotVars

\* the charts need rows of COUNTRY_ISO3: without them main raises ValueError
YoYPctPlotly ==
    /\ script = "analysis_yoy_pct_plotly"
    /\ pc = "load"
    /\ LET out == yoy_pct(df_wide[1])
       IN  IF out.raised
           THEN /\ pc' = "crashed"
                /\ table' = table
           ELSE /\ table' = Some(Ret(out))
                /\ pc' = IF \E k \in 1..Len(Ret(out)) : Ret(out)[k].iso3 = COUNTRY_ISO3
                          THEN "charted" ELSE "no data"
    /\ UNCHANGED <<script, pycountry, saved>>
    /\ UNCHANGED collectorVars
    /\ UNCHANGED pairVars
    /\ UNCHANGED pivotVars

NextYoY ==
    \/ YearlyDiffPct
    \/ YoYPctPlotly

SpecYoY == InitYoY /\ [][NextYoY]_vars

---------------------------------------------------------------------------
(* The end of a collector run: the table is built, then written *)

\* na_position="last": a missing year sorts behind the years
YearLessNaLast(a, b) == a # None /\ (b = None \/ a[1] < b[1])

\* (claim C18, mutant) the indicator left out of the sort keys
LongLess_CountryYear(a, b) ==
    \/ StrRank(a.country) < StrRank(b.country)
    \/ a.country = b.country /\ YearLessNaLast(a.year, b.year)

\* sort_values(by=["country", "indicator", "year"], ascending=[True, True, True])
LongLess(a, b) ==
    \/ StrRank(a.country) < StrRank(b.country)
    \/ a.country = b.country /\ StrRank(a.indicator) < StrRank(b.indicator)
    \/ a.country = b.country /\ a.indicator = b.indicator /\ YearLessNaLast(a.year, b.year)

\* pd.DataFrame(all_rows): the type the year column gets
year_dtype(rows) ==
    IF \A k \in 1..Len(rows) : rows[k].year = None THEN "object"
    ELSE IF \E k \in 1..Len(rows) : rows[k].year = None THEN "float64"
    ELSE "int64"

\* the last lines of fetch_oecd_timeseries_long: a frame built from no
\* records has no columns, and sorting it by column names raises KeyError
sorted_frame(rows) ==
    IF rows = <<>> THEN Raise("KeyError")
    ELSE Return([rows |-> StableSort(rows, {p \in Range(rows) \X Range(rows) :
                                                LongLess(p[1], p[2])}),
                 year_dtype |-> year_dtype(rows)])

FinalizeTimeseries ==
    /\ script = "timeseries"
    /\ pc = "collected"
    /\ LET df == sorted_frame(all_rows)
       IN  IF df.raised
           THEN /\ pc' = "crashed"
                /\ table' = table
           ELSE /\ pc' = "returned"
                /\ table' = Some(Ret(df))
    /\ UNCHANGED <<script, pycountry, saved>>
    /\ UNCHANGED collectorVars
    /\ UNCHANGED pairVars
    /\ UNCHANGED pivotVars

\* __main__: df_long.to_csv(...)
SaveTimeseries ==
    /\ script = "timeseries"
    /\ pc = "returned"
    /\ saved' = Some(table[1].rows)
    /\ pc' = "saved"
    /\ UNCHANGED <<script, pycountry, table>>
    /\ UNCHANGED collectorVars
    /\ UNCHANGED pairVars
    /\ UNCHANGED pivotVars

\* fetch_oecd_6_indicators returns pd.DataFrame(results); __main__ saves it
SaveSix ==
    /\ script = "six"
    /\ pc = "collected"
    /\ table' = Some(results)
    /\ saved' = Some(results)
    /\ pc' = "saved"
    /\ UNCHANGED <<script, pycountry>>
    /\ UNCHANGED collectorVars
    /\ UNCHANGED pairVars
    /\ UNCHANGED pivotVars

\* sort_values(by="value", ascending=False, na_position="last")
ValueGreater(a, b) == a.value # None /\ (b.value = None \/ a.value[1] > b.value[1])

\* finalize_and_save sorts with the default sort, which is not stable: rows of
\* equal value come out in any order
SaveSingle ==
    /\ script = "single"
    /\ pc = "collected"
    /\ table' = Some(results)
    /\ \E order \in [1..Len(results) -> 1..Len(results)] :
          /\ \A i, j \in 1..Len(results) : i # j => order[i] # order[j]
          /\ \A i \in 1..(Len(results) - 1) :
                ~ValueGreater(results[order[i + 1]], results[order[i]])
          /\ \A i, j \in 1..Len(results) :
                (i < j /\ results[order[i]].value = None /\ results[order[j]].value = None)
                    => order[i] < order[j]
          /\ saved' = Some([k \in 1..Len(results) |-> results[order[k]]])
    /\ pc' = "saved"
    /\ UNCHANGED <<script, pycountry>>
    /\ UNCHANGED collectorVars
    /\ UNCHANGED pairVars
    /\ UNCHANGED pivotVars

Init ==
    /\ script \in {"timeseries", "six", "single"}
    /\ pc = "start"
    /\ oecd_countries = <<>>
    /\ ci = 1
    /\ ii = 1
    /\ all_rows = <<>>
    /\ results = <<>>
    /\ row = <<>>
    /\ log = <<>>
    /\ resp = NoResponse
    /\ fetched = NoOutcome
    /\ built = NoOutcome
    /\ df_long = <<>>
    /\ df_wide = None
    /\ pycountry \in SUBSET FuzzyNames
    /\ table = None
    /\ saved = None

Next ==
    \/ Resolve
    \/ RequestTimeseries
    \/ SleepTimeseries
    \/ RequestSix
    \/ SleepSix
    \/ RequestSingle
    \/ SleepSingle
    \/ FinalizeTimeseries
    \/ SaveTimeseries
    \/ SaveSix
    \/ SaveSingle

Spec == Init /\ [][Next]_vars

---------------------------------------------------------------------------
(* Properties of the collector runs (specification Spec) *)

RECURSIVE Flatten(_)
Flatten(ss) == IF ss = <<>> THEN <<>> ELSE Head(ss) \o Flatten(Tail(ss))

Gets == SelectSeq(log, LAMBDA e : e.op = "get")

CountryByIso3(iso3) == CHOOSE c \in Range(oecd_countries) : c.iso3 = iso3
IndicatorByCode(code) == CHOOSE ind \in Range(INDICATORS) : ind.code = code

Failed(e) == fetch_timeseries_rows(e.answer).raised

\* what a pair contributes in a run in which it is the only pair
AloneTimeseries(e) ==
    collect_pair(<<>>, CountryByIso3(e.iso3), IndicatorByCode(e.code), e.answer,
                 START_YEAR, END_YEAR)

AloneSix(e) ==
    fill_column(NewRow(CountryByIso3(e.iso3), YEAR), IndicatorByCode(e.code).name,
                fetch_value_for_country_year(e.answer, YEAR)).cells[1]

AloneSingle(e) ==
    result_row(CountryByIso3(e.iso3), fetch_indicator_for_country_year(e.answer, YEAR))

PairCount ==
    IF script = "single" THEN Len(oecd_countries)
    ELSE Len(oecd_countries) * Len(INDICATORS)

\* C1: failure isolation. In each collector, whatever the answers of the
\* pairs (success, empty, exception), the accumulated records are, pair by
\* pair and in order, what each pair contributes on its own: a failure
\* removes or alters nothing accumulated before it and nothing contributed
\* after it, and the run goes on to the last pair.
C1_FailureIsolation ==
    LET gets == Gets
    IN  /\ script = "timeseries" =>
              all_rows = Flatten([g \in 1..Len(gets) |-> AloneTimeseries(gets[g])])
        /\ script = "six" =>
              LET NI == Len(INDICATORS)
                  cells == [g \in 1..Len(gets) |-> AloneSix(gets[g])]
              IN  /\ Len(results) = ci - 1
                  /\ \A k \in 1..Len(results) :
                        results[k] = [NewRow(oecd_countries[k], YEAR) EXCEPT
                                        !.cells = SubSeq(cells, (k - 1) * NI + 1, k * NI)]
                  /\ (pc = "sleep" \/ (pc = "request" /\ ii > 1)) =>
                        row = [NewRow(oecd_countries[ci], YEAR) EXCEPT
                                 !.cells = SubSeq(cells, (ci - 1) * NI + 1, Len(gets))]
        /\ script = "single" =>
              results = [g \in 1..Len(gets) |-> AloneSingle(gets[g])]
        /\ pc = "collected" => Len(gets) = PairCount

\* a timeseries run that ended, with a failed pair between two pairs that
\* delivered records
C1_Witness ==
    /\ script = "timeseries"
    /\ pc = "collected"
    /\ \E g \in 2..(Len(Gets) - 1) :
          /\ Failed(Gets[g])
          /\ Gets[g - 1].answer = GoodRows
          /\ Gets[g + 1].answer = GoodRows
    /\ Len(all_rows) > Len(Gets)

RequestOrder ==
    IF script = "single"
    THEN [g \in 1..Len(oecd_countries) |-> <<oecd_countries[g].iso3, INDICATOR>>]
    ELSE LET NI == Len(INDICATORS)
         IN  [g \in 1..(Len(oecd_countries) * NI) |->
                <<oecd_countries[((g - 1) \div NI) + 1].iso3,
                  INDICATORS[((g - 1) % NI) + 1].code>>]

\* C3: the requests issued so far are the first pairs of countries x
\* indicators in country-outer, indicator-inner order, each pair once,
\* whether it succeeded or failed; a finished run has requested them all.
C3_EachPairOnceInOrder ==
    LET gets == Gets
        order == RequestOrder
    IN  /\ Len(gets) <= Len(order)
        /\ \A g \in 1..Len(gets) : <<gets[g].iso3, gets[g].code>> = order[g]
        /\ \A g, h \in 1..Len(gets) :
              g # h => <<gets[g].iso3, gets[g].code>> # <<gets[h].iso3, gets[h].code>>
        /\ pc = "collected" => Len(gets) = Len(order)

\* a finished six-indicator run whose first request failed and whose
\* second request was for the same country and the next indicator
C3_Witness ==
    /\ script = "six"
    /\ pc = "collected"
    /\ Len(Gets) >= 4
    /\ Failed(Gets[1])
    /\ Gets[2].iso3 = Gets[1].iso3
    /\ Gets[2].code # Gets[1].code
    /\ Gets[3].iso3 # Gets[1].iso3

ConfiguredSleep ==
    CASE script = "timeseries" -> TIMESERIES_SLEEP
      [] script = "six" -> SIX_SLEEP
      [] script = "single" -> SINGLE_SLEEP

\* C4: fixed pacing. Requests and delays alternate, starting with a
\* request: each request, failed or not, is followed by exactly one delay
\* of the configured length before the next request, and a finished run
\* has taken as many delays as it has issued requests.
C4_FixedPacing ==
    /\ \A k \in 1..Len(log) : log[k].op = IF k % 2 = 1 THEN "get" ELSE "sleep"
    /\ \A k \in 1..Len(log) : log[k].op = "sleep" => log[k].sec = ConfiguredSleep
    /\ pc = "sleep" => Len(log) % 2 = 1
    /\ pc \in {"request", "collected"} => Len(log) = 2 * Len(Gets)

\* a finished timeseries run with a failed request and a successful one,
\* each followed by its delay
C4_Witness ==
    /\ script = "timeseries"
    /\ pc = "collected"
    /\ \E k, m \in 1..(Len(log) - 1) :
          /\ log[k].op = "get" /\ Failed(log[k]) /\ log[k + 1].op = "sleep"
          /\ log[m].op = "get" /\ ~Failed(log[m]) /\ log[m + 1].op = "sleep"

---------------------------------------------------------------------------
(* Properties of one pair (specification SpecPair) *)

PairRaised == fetched.raised \/ built.raised
PairException == IF fetched.raised THEN fetched.exc ELSE built.exc

\* C2 as claimed: a pair whose fetch or row building raises contributes
\* exactly one record, with value absent, error holding the failure, and
\* country, iso3, year, indicator and indicator_code all present; a pair
\* that does not raise contributes no record with an error.
C2_DegradedRecordComplete ==
    pc = "paired" =>
        IF PairRaised
        THEN /\ Len(all_rows) = 1
             /\ all_rows[1].value = None
             /\ all_rows[1].error = Some(PairException)
             /\ all_rows[1].country = PairCountry.name
             /\ all_rows[1].iso3 = PairCountry.iso3
             /\ all_rows[1].indicator = PairIndicator.name
             /\ all_rows[1].indicator_code = PairIndicator.code
             /\ all_rows[1].year # None
        ELSE \A k \in 1..Len(all_rows) : all_rows[k].error = None

\* C2 as amended: the same, except that the year of the degraded record
\* is absent (the record stands for the whole requested range).
C2_DegradedRecordYearAbsent ==
    pc = "paired" =>
        IF PairRaised
        THEN /\ Len(all_rows) = 1
             /\ all_rows[1].value = None
             /\ all_rows[1].error = Some(PairException)
             /\ all_rows[1].country = PairCountry.name
             /\ all_rows[1].iso3 = PairCountry.iso3
             /\ all_rows[1].indicator = PairIndicator.name
             /\ all_rows[1].indicator_code = PairIndicator.code
             /\ all_rows[1].year = None
        ELSE \A k \in 1..Len(all_rows) : all_rows[k].error = None

\* a pair whose fetch returned rows and whose row building raised
C2_Witness ==
    /\ pc = "paired"
    /\ ~fetched.raised
    /\ built.raised
    /\ Len(Ret(fetched).items) = MaxRows
    /\ all_rows[1].error = Some("ValueError")

\* the answers C5 is about: the transport succeeded and the body is JSON,
\* but not an envelope whose second element is a non-empty list
NotARowsEnvelope(r) ==
    /\ r.status = "ok"
    /\ r.data.kind # "invalid"
    /\ \/ r.data.kind # "list"
       \/ r.data.len < 2
       \/ r.data.second.t # "list"
       \/ r.data.second.items = <<>>

NoRows(c) == c.t \in {"list", "dict"} /\ c.items = <<>>

\* C5 as claimed: on every such answer fetch_timeseries_rows raises
\* nothing and returns no rows, and the pair contributes no record at
\* all, in particular no error record.
C5_MalformedEnvelopeIsEmpty ==
    /\ (pc # "fetch" /\ NotARowsEnvelope(resp)) =>
          (~fetched.raised /\ NoRows(Ret(fetched)))
    /\ (pc = "paired" /\ NotARowsEnvelope(resp)) => all_rows = <<>>

RawItems == Ret(fetched).items

YearParses(r) == r.isdict /\ r.date.t # "null" /\ ~py_int(r.date).raised

InRange(r) ==
    /\ YearParses(r)
    /\ Ret(py_int(r.date)) >= START_YEAR
    /\ Ret(py_int(r.date)) <= END_YEAR

ExpectedRecord(r) ==
    [country |-> PairCountry.name, iso3 |-> PairCountry.iso3,
     year |-> Some(Ret(py_int(r.date))),
     indicator |-> PairIndicator.name, indicator_code |-> PairIndicator.code,
     value |-> IF r.value.t = "null" THEN None ELSE Some(Ret(py_float(r.value))),
     error |-> None]

ExpectedRecords(items) == [k \in 1..Len(items) |-> ExpectedRecord(items[k])]

\* C6: what build_long_rows returns is, in input order, one record for
\* each raw row that has a year whose integer parse succeeds and lies in
\* [start_year, end_year], carrying the given country, iso3, indicator
\* and indicator code, the parsed year, and the value as a float, or
\* absent when the row's value is null.
C6_BuildLongRows ==
    (pc \in {"extend", "paired"} /\ ~fetched.raised /\ ~built.raised) =>
        Ret(built) = ExpectedRecords(SelectSeq(RawItems, InRange))

\* two rows kept in input order (not year order), the second with a null
\* value
C6_Witness ==
    /\ pc = "paired"
    /\ ~fetched.raised /\ ~built.raised
    /\ Len(Ret(built)) = 2
    /\ Ret(built)[1].year = Some(2024)
    /\ Ret(built)[1].value = Some(100)
    /\ Ret(built)[2].year = Some(2020)
    /\ Ret(built)[2].value = None

Coercible(r) == InRange(r) /\ (r.value.t = "null" \/ ~py_float(r.value).raised)

AllDicts(c) == c.t = "list" /\ \A k \in 1..Len(c.items) : c.items[k].isdict

\* C7 as claimed: when the answer is a list of rows, a row whose year or
\* value cannot be coerced is skipped: build_long_rows does not raise, the
\* other rows are returned, and the pair contributes no error record.
C7_UncoercibleRowSkipped ==
    (pc = "paired" /\ ~fetched.raised /\ AllDicts(Ret(fetched))) =>
        /\ ~built.raised
        /\ all_rows = ExpectedRecords(SelectSeq(RawItems, Coercible))

NullInRange(r) == InRange(r) /\ r.value.t = "null"

\* C8 as claimed: every provider row inside the year range with a null
\* value yields exactly one record with value and error absent; a record
\* has an error exactly when its pair failed; a record with an error has
\* no value.
C8_MissingVersusFailure ==
    pc = "paired" =>
        /\ (~fetched.raised /\ AllDicts(Ret(fetched))) =>
              \A k \in 1..Len(RawItems) :
                  NullInRange(RawItems[k]) =>
                      Cardinality({j \in 1..Len(all_rows) :
                                      /\ all_rows[j].year = Some(Ret(py_int(RawItems[k].date)))
                                      /\ all_rows[j].value = None
                                      /\ all_rows[j].error = None})
                      = Cardinality({m \in 1..Len(RawItems) :
                                      /\ NullInRange(RawItems[m])
                                      /\ Ret(py_int(RawItems[m].date))
                                           = Ret(py_int(RawItems[k].date))})
        /\ \A j \in 1..Len(all_rows) : (all_rows[j].error # None) <=> PairRaised
        /\ \A j \in 1..Len(all_rows) : all_rows[j].error # None => all_rows[j].value = None

---------------------------------------------------------------------------
(* Properties of the pivot (specification SpecPivot) *)

WideTable == df_wide[1]

LongKeys == {LongKey(df_long[i]) : i \in 1..Len(df_long)}

RecordsAt(k, ind) ==
    {i \in 1..Len(df_long) : LongKey(df_long[i]) = k /\ df_long[i].indicator = ind}

\* the value a wide row shows for an indicator: missing when the row has
\* no such column
CellOf(w, ind) ==
    IF \E j \in 1..Len(w.cells) : w.cells[j].col = ind
    THEN w.cells[CHOOSE j \in 1..Len(w.cells) : w.cells[j].col = ind].value
    ELSE None

\* C9: the written wide table has exactly one row for each (country,
\* iso3, year) key of the long records and no other row; in a row, an
\* indicator shows the value of the long record of that key and
\* indicator, and is missing when there is no such record.
C9_PivotOneRowPerKey ==
    pc = "written" =>
        /\ df_wide # None
        /\ \A k \in LongKeys :
              Cardinality({n \in 1..Len(WideTable) : LongKey(WideTable[n]) = k}) = 1
        /\ \A n \in 1..Len(WideTable) : LongKey(WideTable[n]) \in LongKeys
        /\ \A n \in 1..Len(WideTable) : \A c \in 1..Len(ordered_columns) :
              LET recs == RecordsAt(LongKey(WideTable[n]), ordered_columns[c])
              IN  IF recs = {} THEN CellOf(WideTable[n], ordered_columns[c]) = None
                  ELSE \A i \in recs :
                         CellOf(WideTable[n], ordered_columns[c]) = df_long[i].value

\* a wide table of two rows, one of them without a year, in which one row
\* has a value for an indicator the other row has no record of
C9_Witness ==
    /\ pc = "written"
    /\ Len(WideTable) = 2
    /\ \E n \in 1..2 : WideTable[n].year = None
    /\ \E n, m \in 1..2 : \E ind \in PivotIndicators :
          /\ RecordsAt(LongKey(WideTable[n]), ind) = {}
          /\ CellOf(WideTable[m], ind) # None

SameTupleTwice ==
    \E i, j \in 1..Len(df_long) :
        /\ i # j
        /\ df_long[i].country = df_long[j].country
        /\ df_long[i].iso3 = df_long[j].iso3
        /\ df_long[i].year = df_long[j].year
        /\ df_long[i].indicator = df_long[j].indicator

\* C10: when two long records have the same (country, iso3, year,
\* indicator), the pivot step ends in an error and no wide table is
\* written.
C10_DuplicatesRejected ==
    (pc # "pivot" /\ SameTupleTwice) => (pc = "crashed" /\ df_wide = None)

\* a rejected table whose two duplicates carry the same value
C10_Witness ==
    /\ pc = "crashed"
    /\ df_wide = None
    /\ \E i, j \in 1..Len(df_long) :
          /\ i # j
          /\ LongKey(df_long[i]) = LongKey(df_long[j])
          /\ df_long[i].indicator = df_long[j].indicator
          /\ df_long[i].value = df_long[j].value
          /\ df_long[i].value # None

---------------------------------------------------------------------------
(* Properties of the change table (specification SpecChanges) *)

WideInput == df_wide[1]
ChangeTable == saved[1]

HasWideRow(country, iso3, year) ==
    \E n \in 1..Len(WideInput) :
        /\ WideInput[n].country = country
        /\ WideInput[n].iso3 = iso3
        /\ WideInput[n].year = Some(year)

WideValue(country, iso3, year, m) ==
    cell(WideInput[CHOOSE n \in 1..Len(WideInput) :
                      /\ WideInput[n].country = country
                      /\ WideInput[n].iso3 = iso3
                      /\ WideInput[n].year = Some(year)], m)

\* C11: the change table has exactly one row for each (country, iso3)
\* that has a wide row of the start year and a wide row of the end year,
\* and no row for any other (country, iso3).
C11_InnerJoinOnCountry ==
    pc = "saved" =>
        /\ \A n \in 1..Len(ChangeTable) :
              /\ HasWideRow(ChangeTable[n].country, ChangeTable[n].iso3, START_YEAR)
              /\ HasWideRow(ChangeTable[n].country, ChangeTable[n].iso3, END_YEAR)
        /\ \A k \in PivotKeys :
              Cardinality({n \in 1..Len(ChangeTable) :
                              ChangeTable[n].country = k.country /\ ChangeTable[n].iso3 = k.iso3})
              = IF HasWideRow(k.country, k.iso3, START_YEAR)
                   /\ HasWideRow(k.country, k.iso3, END_YEAR)
                THEN 1 ELSE 0

\* one country with both years, the other with the start year only
C11_Witness ==
    /\ pc = "saved"
    /\ Len(ChangeTable) = 1
    /\ \E k \in PivotKeys :
          /\ HasWideRow(k.country, k.iso3, START_YEAR)
          /\ ~HasWideRow(k.country, k.iso3, END_YEAR)

ChangeCell(r, m, part) ==
    r.cells[CHOOSE j \in 1..Len(r.cells) : r.cells[j].col = [metric |-> m, part |-> part]].value

\* C12: in every row of the change table and for every configured metric
\* that is a column of the wide table, <metric>_change is the end-year
\* value minus the start-year value of that country when both are
\* present and is missing when either is missing; the metrics that are
\* not columns of the wide table have no change column.
C12_ChangeIsEndMinusStart ==
    pc = "saved" =>
        \A n \in 1..Len(ChangeTable) : \A j \in 1..Len(METRICS) :
            LET r == ChangeTable[n]
                m == METRICS[j]
                has == \E c \in 1..Len(r.cells) : r.cells[c].col = [metric |-> m, part |-> "change"]
            IN  IF m \in Range(columns_of(WideInput))
                THEN /\ has
                     /\ LET a == WideValue(r.country, r.iso3, START_YEAR, m)
                            b == WideValue(r.country, r.iso3, END_YEAR, m)
                        IN  /\ ChangeCell(r, m, "start") = a
                            /\ ChangeCell(r, m, "end") = b
                            /\ ChangeCell(r, m, "change") =
                                  IF a # None /\ b # None THEN Some(b[1] - a[1]) ELSE None
                ELSE ~has

\* a row with a negative change for one metric and a missing change, for
\* want of the end value, for the other
C12_Witness ==
    /\ pc = "saved"
    /\ \E n \in 1..Len(ChangeTable) :
          /\ ChangeCell(ChangeTable[n], "gdp_per_capita_usd", "change") = Some(0 - 2)
          /\ ChangeCell(ChangeTable[n], "gdp_growth_pct", "start") = Some(2)
          /\ ChangeCell(ChangeTable[n], "gdp_growth_pct", "end") = None
          /\ ChangeCell(ChangeTable[n], "gdp_growth_pct", "change") = None

---------------------------------------------------------------------------
(* Properties of the year-over-year tables (specification SpecYoY) *)

\* the rows of the wide table that have a year and a value of the metric
UsableRows ==
    LET whole == SelectSeq(WideInput, LAMBDA w : w.year # None /\ w.cells[1].value # None)
    IN  [k \in 1..Len(whole) |->
            [iso3 |-> whole[k].iso3, year |-> whole[k].year[1], value |-> whole[k].cells[1].value[1]]]

UsableInRange == SelectSeq(UsableRows, LAMBDA r : r.year >= START_YEAR /\ r.year <= END_YEAR)

\* the series a script computes on: the plotting script drops the years
\* outside the range before it computes, the other script after
SeriesPool == IF script = "analysis_yoy_pct_plotly" THEN UsableInRange ELSE UsableRows

EarlierRows(pool, r) == {j \in 1..Len(pool) : pool[j].iso3 = r.iso3 /\ pool[j].year < r.year}

\* the value of the chronologically preceding row of the same iso3
PrecedingValue(pool, r) ==
    LET earlier == EarlierRows(pool, r)
    IN  IF earlier = {} THEN None
        ELSE Some(pool[CHOOSE j \in earlier : \A o \in earlier : pool[o].year <= pool[j].year].value)

YoYTable == table[1]

\* C13: in both year-over-year scripts, the difference and the percent
\* change of a row are those of its value against the value of the
\* chronologically preceding row of the same iso3, and are absent when the
\* iso3 has no earlier row, whatever the countries and the order of the
\* rows in the input; the rows of the table are the usable rows in range.
C13_GroupIsolation ==
    (pc \in {"saved", "charted", "no data"}
        /\ script \in {"analysis_yearly_diff_and_pct", "analysis_yoy_pct_plotly"}) =>
        LET pool == SeriesPool
        IN  /\ Len(YoYTable) = Len(UsableInRange)
            /\ \A r \in Range(UsableInRange) : \E n \in 1..Len(YoYTable) :
                  /\ YoYTable[n].iso3 = r.iso3
                  /\ YoYTable[n].year = r.year
                  /\ YoYTable[n].value = r.value
            /\ \A n \in 1..Len(YoYTable) :
                  LET prev == PrecedingValue(pool, YoYTable[n])
                  IN  IF script = "analysis_yearly_diff_and_pct"
                      THEN /\ YoYTable[n].yearly_diff =
                                 (IF prev = None THEN None ELSE Some(YoYTable[n].value - prev[1]))
                           /\ YoYTable[n].yearly_pct_change =
                                 round2(Ret(pct_change(prev, YoYTable[n].value)))
                      ELSE YoYTable[n].yoy_pct = Ret(pct_change(prev, YoYTable[n].value))

\* two rows of one country given out of order with a row of the other
\* country between them: the later one is compared with the earlier one
C13_Witness ==
    /\ script = "analysis_yearly_diff_and_pct"
    /\ pc = "saved"
    /\ Len(WideInput) = 3
    /\ WideInput[1].iso3 = "JPN" /\ WideInput[1].year = Some(2021) /\ WideInput[1].cells[1].value = Some(4)
    /\ WideInput[2].iso3 = "KOR" /\ WideInput[2].year = Some(2020) /\ WideInput[2].cells[1].value = Some(0)
    /\ WideInput[3].iso3 = "JPN" /\ WideInput[3].year = Some(2020) /\ WideInput[3].cells[1].value = Some(2)
    /\ \E n \in 1..Len(YoYTable) :
          /\ YoYTable[n].iso3 = "JPN"
          /\ YoYTable[n].year = 2021
          /\ YoYTable[n].yearly_diff = Some(2)
          /\ YoYTable[n].yearly_pct_change = Number(10000, 100)

SavedYoY == saved[1]

FirstSavedRows ==
    {n \in 1..Len(SavedYoY) :
        \A o \in 1..Len(SavedYoY) :
            SavedYoY[o].iso3 = SavedYoY[n].iso3 => SavedYoY[n].year <= SavedYoY[o].year}

\* C14 as claimed: in the persisted table the earliest row of every iso3
\* has yearly_diff and yearly_pct_change absent, whatever the years of the
\* input.
C14_FirstSavedRowAbsent ==
    (script = "analysis_yearly_diff_and_pct" /\ pc = "saved") =>
        \A n \in FirstSavedRows :
            SavedYoY[n].yearly_diff = None /\ SavedYoY[n].yearly_pct_change = None

\* C14 as amended: a persisted row has yearly_diff absent exactly when it
\* is the earliest usable row of its iso3 in the input, and then
\* yearly_pct_change is absent too; so the earliest persisted row of an iso3
\* has both absent when the input has no usable row of that iso3 before
\* START_YEAR, and carries the comparison with that row when it has one.
C14_FirstSeriesRowAbsent ==
    (script = "analysis_yearly_diff_and_pct" /\ pc = "saved") =>
        /\ \A n \in 1..Len(SavedYoY) :
              /\ SavedYoY[n].yearly_diff = None <=> EarlierRows(UsableRows, SavedYoY[n]) = {}
              /\ SavedYoY[n].yearly_diff = None => SavedYoY[n].yearly_pct_change = None
        /\ \A n \in FirstSavedRows :
              (\A r \in Range(UsableRows) : r.iso3 = SavedYoY[n].iso3 => r.year >= START_YEAR)
                  => (SavedYoY[n].yearly_diff = None /\ SavedYoY[n].yearly_pct_change = None)

\* one country with a row before the range, the other without: the first
\* persisted row of the one is compared, that of the other is not
C14_Witness ==
    /\ script = "analysis_yearly_diff_and_pct"
    /\ pc = "saved"
    /\ Len(SavedYoY) = 2
    /\ \E n, m \in FirstSavedRows :
          /\ SavedYoY[n].year = START_YEAR /\ SavedYoY[n].yearly_diff # None
          /\ SavedYoY[m].year = START_YEAR /\ SavedYoY[m].yearly_diff = None

\* C15: neither script raises on a previous value of zero; the percent
\* change of the row after a zero is an infinity, or not-a-number when the
\* row's own value is zero too, and the other rows have their ordinary
\* percent change (and every row its ordinary difference).
C15_ZeroPreviousValue ==
    /\ (script \in {"analysis_yearly_diff_and_pct", "analysis_yoy_pct_plotly"}
            /\ pc # "load") => pc # "crashed"
    /\ (script = "analysis_yearly_diff_and_pct" /\ pc = "saved") =>
          \A n \in 1..Len(SavedYoY) :
              LET prev == PrecedingValue(UsableRows, SavedYoY[n])
                  v == SavedYoY[n].value
              IN  /\ prev = Some(0) =>
                        /\ SavedYoY[n].yearly_pct_change = (IF v = 0 THEN NaN ELSE Infinity(1))
                        /\ SavedYoY[n].yearly_diff = Some(v)
                  /\ (prev # None /\ prev # Some(0)) =>
                        /\ SavedYoY[n].yearly_pct_change =
                              Number(RoundHalfEven(10000 * (v - prev[1]), prev[1]), 100)
                        /\ SavedYoY[n].yearly_diff = Some(v - prev[1])
    /\ (script = "analysis_yoy_pct_plotly" /\ pc \in {"charted", "no data"}) =>
          \A n \in 1..Len(YoYTable) :
              LET prev == PrecedingValue(UsableInRange, YoYTable[n])
                  v == YoYTable[n].value
              IN  /\ prev = Some(0) =>
                        YoYTable[n].yoy_pct = (IF v = 0 THEN NaN ELSE Infinity(1))
                  /\ (prev # None /\ prev # Some(0)) =>
                        YoYTable[n].yoy_pct = Number(100 * (v - prev[1]), prev[1])

\* a series 0, 2, 4: the row after the zero has an infinite percent change
\* and the row after that one an ordinary one
C15_Witness ==
    /\ script = "analysis_yearly_diff_and_pct"
    /\ pc = "saved"
    /\ \E n, m \in 1..Len(SavedYoY) :
          /\ SavedYoY[n].iso3 = SavedYoY[m].iso3
          /\ SavedYoY[n].year = 2020
          /\ SavedYoY[n].yearly_pct_change = Infinity(1)
          /\ SavedYoY[m].year = 2021
          /\ SavedYoY[m].yearly_pct_change = Number(10000, 100)

---------------------------------------------------------------------------
(* Properties of the start and the end of a collector run (specification   *)
(* Spec)                                                                    *)

Unresolvable ==
    \E k \in 1..NCountries :
        OECD_MEMBERS[k] \notin DOMAIN MANUAL_ISO3 /\ OECD_MEMBERS[k] \notin pycountry

\* C16: when a name of the member list cannot be resolved, the run ends
\* at the directory step with no list at all, no request issued and no
\* file written; otherwise the list is complete and in the order of the
\* member list. A name of the override table resolves to its override
\* whatever the fuzzy search would find for it.
C16_UnresolvedNameIsFatal ==
    /\ (pc # "start" /\ Unresolvable) =>
          /\ pc = "crashed"
          /\ oecd_countries = <<>>
          /\ log = <<>>
          /\ table = None
          /\ saved = None
    /\ (pc # "start" /\ ~Unresolvable) =>
          /\ Len(oecd_countries) = NCountries
          /\ \A k \in 1..NCountries :
                /\ oecd_countries[k].name = OECD_MEMBERS[k]
                /\ oecd_countries[k].iso3 =
                      IF OECD_MEMBERS[k] \in DOMAIN MANUAL_ISO3
                      THEN MANUAL_ISO3[OECD_MEMBERS[k]]
                      ELSE PYCOUNTRY_ALPHA_3[OECD_MEMBERS[k]]
    /\ \A name \in DOMAIN MANUAL_ISO3 : \A db \in {pycountry, pycountry \cup {name}} :
          name_to_iso3(name, db) = Return(MANUAL_ISO3[name])

\* a run ended by a name the fuzzy search does not find
C16_Witness ==
    /\ pc = "crashed"
    /\ Unresolvable
    /\ oecd_countries = <<>>
    /\ log = <<>>

\* C17: a file exists only after the last pair's request and delay: at
\* every earlier point of a run nothing has been written, and the script
\* has ended once the file is written.
C17_NothingSavedBeforeEnd ==
    /\ saved # None =>
          /\ pc = "saved"
          /\ Len(Gets) = PairCount
          /\ Len(log) = 2 * PairCount
          /\ log[Len(log)].op = "sleep"
    /\ pc \in {"start", "request", "sleep", "collected", "returned", "crashed"} => saved = None

\* a timeseries run that wrote its file, one of its pairs having failed
C17_Witness ==
    /\ script = "timeseries"
    /\ pc = "saved"
    /\ saved # None
    /\ \E g \in 1..Len(Gets) : Failed(Gets[g])
    /\ Len(saved[1]) > Len(Gets)

Occurrences(rows, r) == Cardinality({k \in 1..Len(rows) : rows[k] = r})

\* C18: the table fetch_oecd_timeseries_long returns holds the accumulated
\* records, each as often as it was accumulated and none altered, in
\* ascending order of country, then indicator, then year, a record without
\* year behind the dated records of the same country and indicator.
C18_SortedPermutation ==
    (script = "timeseries" /\ table # None) =>
        LET rows == table[1].rows
        IN  /\ Len(rows) = Len(all_rows)
            /\ \A r \in Range(all_rows) \cup Range(rows) :
                  Occurrences(rows, r) = Occurrences(all_rows, r)
            /\ \A i, j \in 1..Len(rows) :
                  i < j =>
                    \/ StrRank(rows[i].country) < StrRank(rows[j].country)
                    \/ /\ rows[i].country = rows[j].country
                       /\ StrRank(rows[i].indicator) < StrRank(rows[j].indicator)
                    \/ /\ rows[i].country = rows[j].country
                       /\ rows[i].indicator = rows[j].indicator
                       /\ (rows[j].year = None
                           \/ (rows[i].year # None /\ rows[i].year[1] <= rows[j].year[1]))

\* a returned table that differs from the accumulated list in order and
\* holds a record without year
C18_Witness ==
    /\ script = "timeseries"
    /\ pc = "returned"
    /\ table[1].rows # all_rows
    /\ \E k \in 1..Len(all_rows) : all_rows[k].year = None
    /\ \E k \in 1..Len(all_rows) : all_rows[k].year # None

FetchOf(g) == fetch_indicator_for_country_year(Gets[g].answer, YEAR)

ErrorStatuses == {"http_error", "request_error", "unexpected_error"}

\* C19: fetch_oecd_indicator_2024 returns one row per country, in the
\* order of the countries; a row has status "ok" and the value exactly
\* when the fetch returned a value, "missing_value" and no value exactly
\* when the fetch returned none without raising, and an error status and no
\* value exactly when the fetch raised.
C19_ThreeWayOutcome ==
    (script = "single" /\ pc \in {"collected", "saved"}) =>
        /\ Len(results) = Len(oecd_countries)
        /\ Len(Gets) = Len(oecd_countries)
        /\ table # None => table[1] = results
        /\ \A k \in 1..Len(results) :
              /\ results[k].country = oecd_countries[k].name
              /\ results[k].iso3 = oecd_countries[k].iso3
              /\ results[k].status \in {"ok", "missing_value"} \cup ErrorStatuses
              /\ results[k].status = "ok" <=> (~FetchOf(k).raised /\ Ret(FetchOf(k)) # None)
              /\ results[k].status = "missing_value" <=>
                    (~FetchOf(k).raised /\ Ret(FetchOf(k)) = None)
              /\ results[k].status \in ErrorStatuses <=> FetchOf(k).raised
              /\ results[k].status = "ok" =>
                    (results[k].value # None /\ results[k].value = Ret(FetchOf(k)))
              /\ results[k].status # "ok" => results[k].value = None

\* a finished run with a row of a missing value and a row of a failure
C19_Witness ==
    /\ script = "single"
    /\ pc = "collected"
    /\ \E k, m \in 1..Len(results) :
          /\ results[k].status = "missing_value" /\ Gets[k].answer = NullValueRow
          /\ results[m].status = "unexpected_error" /\ Gets[m].answer = NotRows

YearInRange(r) == r.year # None /\ r.year[1] >= START_YEAR /\ r.year[1] <= END_YEAR

\* C20 as claimed: every record of the collected long table has an
\* integer year inside [start_year, end_year], failures included, and so
\* has every wide row built from the table.
C20_EveryYearInRange ==
    script = "timeseries" =>
        /\ \A k \in 1..Len(all_rows) : YearInRange(all_rows[k])
        /\ table # None => table[1].year_dtype = "int64"
        /\ saved # None =>
              \A w \in Range(wide_rows(Ret(pivot(saved[1])))) : YearInRange(w)

\* C20 as amended: a record without error has an integer year inside the
\* range and the record of a failed pair has no year; the year column of
\* the returned table is of integer type only when no pair failed; a wide
\* row built from the written table has a year inside the range, except one
\* row without year for each country with a failed pair.
C20_YearInRangeUnlessFailed ==
    script = "timeseries" =>
        /\ \A k \in 1..Len(all_rows) :
              IF all_rows[k].error = None THEN YearInRange(all_rows[k])
              ELSE all_rows[k].year = None
        /\ table # None =>
              (table[1].year_dtype = "int64" <=>
                  \A k \in 1..Len(all_rows) : all_rows[k].error = None)
        /\ saved # None =>
              LET p == pivot(saved[1])
                  wide == Range(wide_rows(Ret(p)))
              IN  /\ ~p.raised
                  /\ \A w \in wide : YearInRange(w) \/ w.year = None
                  /\ \A c \in Range(oecd_countries) :
                        Cardinality({w \in wide : w.iso3 = c.iso3 /\ w.year = None})
                        = IF \E k \in 1..Len(saved[1]) :
                                saved[1][k].iso3 = c.iso3 /\ saved[1][k].error # None
                          THEN 1 ELSE 0

\* a written table with the record of a failed pair and dated records of
\* the same country
C20_Witness ==
    /\ script = "timeseries"
    /\ pc = "saved"
    /\ \E k, m \in 1..Len(saved[1]) :
          /\ saved[1][k].year = None
          /\ saved[1][m].year = Some(2023)
          /\ saved[1][k].iso3 = saved[1][m].iso3

\* C21 as claimed: once the country list is resolved,
\* fetch_oecd_timeseries_long never raises: whatever the pairs answered,
\* failures, empty, null or out-of-range responses included, the run goes
\* on to return a table.
C21_ReturnsTableForEveryOutcome ==
    (script = "timeseries" /\ oecd_countries # <<>>) =>
        /\ pc # "crashed"
        /\ pc \in {"returned", "saved"} => table # None

=============================================================================
